---- MODULE Spec2Model ----
(***************************************************************************)
(* The translation-augmented document build pipeline of the book:          *)
(* the Translation store of scripts/utils.ts (cache, pending queue,        *)
(* DeepL fetch), the tree processor extractOrApplyTranslations (walker and *)
(* language-block scan), and the Antora extension that drives them for     *)
(* several components.                                                     *)
(*                                                                         *)
(* JS strings that the code inspects character by character or tests for   *)
(* truthiness are sequences of one-character strings: <<>> is the empty    *)
(* (falsy) string.  Language identifiers and attribute values are TLA+     *)
(* strings; Undefined stands for the JS value undefined.                   *)
(***************************************************************************)
EXTENDS Integers, Sequences, FiniteSets, TLC

VARIABLES
    targetLanguage,   \* Translation.targetLanguage
    viewLang,         \* the key of allTranslations whose object Translation.translations aliases
    allTranslations,  \* Translation.allTranslations
    textQueue,        \* Translation.textQueue
    fileLoaded,       \* Translation.fileLoaded
    file,             \* ./translations.json on disk
    deeplKey,         \* process.env.DEEPL_KEY is set
    last,             \* history: the last call on the store, its outcome, request and response
    queueLang,        \* history: for each textQueue entry, targetLanguage when it was pushed
    walkIn,           \* history: the tree handed to the last walk
    walkOut,          \* history: the tree the last walk returned
    pc,               \* position of the contentClassified handler
    components,       \* Object.keys(components) of the handler
    compIdx,          \* index of the component being processed
    pagesLeft,        \* pages of the current component still to load
    source,           \* the document file the runs of the build script convert
    other,            \* the store, position and last call of the process that is not running
    calls,            \* history: calls made on the store so far
    result,           \* history: the value the last call of get returned
    persisted         \* history: the structure the last writeFileSync wrote

vars == <<targetLanguage, viewLang, allTranslations, textQueue, fileLoaded, file,
          deeplKey, last, queueLang, walkIn, walkOut, pc, components, compIdx, pagesLeft,
          source, other, calls, result, persisted>>

storeVars == <<targetLanguage, viewLang, allTranslations, textQueue, fileLoaded>>
buildVars == <<pc, components, compIdx, pagesLeft, source, other>>

(***************************************************************************)
(* Bounds of the model.                                                    *)
(***************************************************************************)
\* longest pending queue a walk may leave behind
MaxQueue == 3
\* stands for the 500 of utils.ts:69-70, scaled below MaxQueue so that truncation happens
BatchLimit == 2
\* calls one run drives the store with
MaxCalls == 5
\* most children of the root in the wide family of trees
MaxWidth == 4
\* most pages of one component
MaxPages == 2
\* longest title handed to heading
MaxTitle == 3

(***************************************************************************)
(* JS values.                                                              *)
(***************************************************************************)
Undefined == "<undefined>"

\* truthiness of an attribute value or identifier: undefined and '' are falsy
Falsy(v) == v = Undefined \/ v = ""

Range(s) == {s[i] : i \in 1..Len(s)}

\* {} : an object without own keys
EmptyMap == [t \in {} |-> <<>>]

\* obj[key] is truthy: the key is present and its string is not empty
Truthy(obj, key) == key \in DOMAIN obj /\ obj[key] # <<>>

\* obj with obj[key] = value assigned
Assign(obj, key, value) ==
    [k \in DOMAIN obj \cup {key} |-> IF k = key THEN value ELSE obj[k]]

languageMap == [german |-> "DE", english |-> "EN", chinese |-> "ZH", polish |-> "PL"]

\* the strings of the documents and of the translation service
TextA == <<"a">>
TextB == <<"b">>
TextX == <<"x">>
SrcTexts == {TextA, TextB}
TrTexts == {<<>>, TextX}

\* identifiers handed to setLanguage: '', three supported ones, one unsupported
LangInputs == {"", "german", "chinese", "english", "french"}

(***************************************************************************)
(* Blocks of the parsed document.  id is the identity of the JS object;    *)
(* text is the title of a section or the text of a list item; lang and     *)
(* keep are the attributes of that name (Undefined: not set).              *)
(***************************************************************************)
Node(id, context, text, hasText, lines, hasLines, lang, keep, blocks) ==
    [id |-> id, context |-> context, text |-> text, hasText |-> hasText,
     lines |-> lines, hasLines |-> hasLines, lang |-> lang, keep |-> keep,
     blocks |-> blocks]

NoDoc == Node(0, "none", <<>>, FALSE, <<>>, FALSE, Undefined, Undefined, <<>>)

\* there is no second process
NoProcess == [pc |-> "none"]

(***************************************************************************)
(* The cache file: JSON.stringify(allTranslations, undefined, 4) and       *)
(* JSON.parse.  The text is modelled by its language keys and its          *)
(* (language, source, translation) members.                                *)
(***************************************************************************)
NoFile == [exists |-> FALSE, empty |-> FALSE, langs |-> {}, members |-> {}]
EmptyFile == [exists |-> TRUE, empty |-> TRUE, langs |-> {}, members |-> {}]

Stringify(all) ==
    [exists |-> TRUE, empty |-> FALSE, langs |-> DOMAIN all,
     members |-> UNION {{<<l, t, all[l][t]>> : t \in DOMAIN all[l]} : l \in DOMAIN all}]

Parse(f) ==
    [l \in f.langs |->
        [t \in {m[2] : m \in {x \in f.members : x[1] = l}} |->
            (CHOOSE m \in f.members : m[1] = l /\ m[2] = t)[3]]]

\* mutant: what the file holds is not taken over
ReadNothing(f) == EmptyMap

\* json ? JSON.parse(json) : {}
ReadCache(f) == IF f.empty THEN EmptyMap ELSE Parse(f)

(***************************************************************************)
(* Translation.setLanguage                                                 *)
(***************************************************************************)
\* let translations = all[lang]; if (!translations) translations = all[lang] = {}
EnsureLanguage(all, lang) == IF lang \in DOMAIN all THEN all ELSE Assign(all, lang, EmptyMap)

\* this.translations
translations == IF viewLang = Undefined THEN EmptyMap ELSE allTranslations[viewLang]

\* history record of a call: its name, how it ended, the identifier handed to setLanguage,
\* the length of textQueue when loadTranslations was entered, whether a request was sent,
\* the text fields of the request and the answer of the service
Record(op, outcome, arg, pending, requested, submitted, resp) ==
    [op |-> op, outcome |-> outcome, arg |-> arg, pending |-> pending,
     requested |-> requested, submitted |-> submitted, resp |-> resp]

NoResponse == [ok |-> FALSE, hasTranslations |-> FALSE, texts |-> <<>>]

SetLanguage(lang) ==
    /\ UNCHANGED <<textQueue, file, deeplKey, result, persisted>>
    /\ walkIn' = NoDoc
    /\ walkOut' = NoDoc
    /\ IF Falsy(lang) \/ targetLanguage = lang
       THEN /\ last' = Record("setLanguage", "noop", lang, 0, FALSE, <<>>, NoResponse)
            /\ UNCHANGED <<targetLanguage, viewLang, allTranslations, fileLoaded>>
       ELSE /\ targetLanguage' = lang
            /\ IF lang \notin DOMAIN languageMap
               THEN /\ last' = Record("setLanguage", "unsupported", lang, 0, FALSE, <<>>, NoResponse)
                    /\ UNCHANGED <<viewLang, allTranslations, fileLoaded>>
               ELSE LET load == ~fileLoaded /\ file.exists
                        all == IF load THEN ReadCache(file) ELSE allTranslations
                    IN  /\ fileLoaded' = (fileLoaded \/ load)
                        /\ allTranslations' = EnsureLanguage(all, lang)
                        /\ viewLang' = lang
                        /\ last' = Record("setLanguage", "ok", lang, 0, FALSE, <<>>, NoResponse)

(***************************************************************************)
(* Translation.loadTranslations                                            *)
(***************************************************************************)
\* mutant: the queue is cut from the front, the newest entries stay
TruncateFront(queue) ==
    IF Len(queue) > BatchLimit THEN SubSeq(queue, Len(queue) - BatchLimit + 1, Len(queue)) ELSE queue

\* mutant: a queue over the limit is emptied
TruncateToNone(queue) == IF Len(queue) > BatchLimit THEN <<>> ELSE queue

\* if (this.textQueue.length>500) this.textQueue.length = 500
Truncate(queue) == IF Len(queue) > BatchLimit THEN SubSeq(queue, 1, BatchLimit) ELSE queue

\* mutant: an index already in the map is not overwritten, the first occurrence stays
IndexMapFirst(queue) ==
    [t \in Range(queue) |-> (CHOOSE i \in 1..Len(queue) :
                                /\ queue[i] = t
                                /\ \A j \in 1..(i - 1) : queue[j] # t) - 1]

\* map[text] = { index }: written once per queue entry, so the last occurrence stays
\* (JS indices, from 0)
IndexMap(queue) ==
    [t \in Range(queue) |-> (CHOOSE i \in 1..Len(queue) :
                                /\ queue[i] = t
                                /\ \A j \in (i + 1)..Len(queue) : queue[j] # t) - 1]

\* the keys of map as Object.entries yields them: in the order of their first insertion
\* (source strings are prose, not integer-like keys)
RECURSIVE EntryOrder(_)
EntryOrder(queue) ==
    IF queue = <<>> THEN <<>>
    ELSE LET front == EntryOrder(SubSeq(queue, 1, Len(queue) - 1))
             t == queue[Len(queue)]
         IN  IF t \in Range(front) THEN front ELSE Append(front, t)

\* result.translations[index]: undefined past the end of the array
HasElement(texts, index) == index + 1 <= Len(texts)

\* for (const [text, info] of Object.entries(map)) { ... translations[text] = translated.text }
\* returns the object as the loop leaves it and the index it threw at (-1: it did not)
RECURSIVE Correlate(_, _, _, _)
Correlate(obj, order, map, texts) ==
    IF order = <<>> THEN [obj |-> obj, missing |-> -1]
    ELSE LET text == Head(order)
             index == map[text]
         IN  IF ~HasElement(texts, index)
             THEN [obj |-> obj, missing |-> index]
             ELSE Correlate(Assign(obj, text, texts[index + 1]), Tail(order), map, texts)

\* what the translation service may answer to a request of n texts
SeqsUpTo(S, n) == UNION {[1..k -> S] : k \in 0..n}
Responses(n) ==
    {[ok |-> FALSE, hasTranslations |-> FALSE, texts |-> <<>>],
     [ok |-> TRUE, hasTranslations |-> FALSE, texts |-> <<>>]}
    \cup {[ok |-> TRUE, hasTranslations |-> TRUE, texts |-> s] : s \in SeqsUpTo(TrTexts, n)}

\* mutant: the call never returns early
SoftSkipNever(queue, key) == FALSE

\* mutant: the call returns early only when both the queue is empty and the key is missing
SoftSkipBoth(queue, key) == Len(queue) = 0 /\ ~key

\* if (!this.textQueue.length || !process.env.DEEPL_KEY)
SoftSkip(queue, key) == Len(queue) = 0 \/ ~key

\* mutant: the answer of the service is not merged
MergeDropped(all, target, queue, resp) ==
    [all |-> all, outcome |-> IF resp.ok THEN "ok" ELSE "http_error"]

\* mutant: the translations of the answer are written into the sub-mapping of every language
MergeEverywhere(all, target, queue, resp) ==
    IF ~resp.ok THEN [all |-> all, outcome |-> "http_error"]
    ELSE IF ~resp.hasTranslations THEN [all |-> all, outcome |-> "ok"]
    ELSE LET c == Correlate(all[target], EntryOrder(queue), IndexMap(queue), resp.texts)
         IN  [all |-> [l \in DOMAIN all |-> IF l = target THEN c.obj
                                            ELSE [t \in DOMAIN all[l] \cup DOMAIN c.obj |->
                                                     IF t \in DOMAIN c.obj THEN c.obj[t]
                                                     ELSE all[l][t]]],
              outcome |-> IF c.missing >= 0 THEN "missing_translation" ELSE "ok"]

\* from the answer of the service to the end of the loop over Object.entries(map):
\* allTranslations as the call leaves it, and how the call ends
Merge(all, target, queue, resp) ==
    IF ~resp.ok THEN [all |-> all, outcome |-> "http_error"]
    ELSE IF ~resp.hasTranslations THEN [all |-> all, outcome |-> "ok"]
    ELSE LET c == Correlate(all[target], EntryOrder(queue), IndexMap(queue), resp.texts)
         IN  [all |-> Assign(all, target, c.obj),
              outcome |-> IF c.missing >= 0 THEN "missing_translation" ELSE "ok"]

\* mutant: the file is never written
PersistsNever(outcome) == FALSE

\* mutant: the file is written whatever happened (a write in a finally block)
PersistsAlways(outcome) == TRUE

\* writeFileSync is reached: nothing was thrown before it
Persists(outcome) == outcome = "ok"

\* mutant: the entries the file holds and the writer does not are kept in the file
writeFileMerged(f, all) ==
    LET old == IF f.exists /\ ~f.empty THEN Parse(f) ELSE EmptyMap
        Sub(m, l) == IF l \in DOMAIN m THEN m[l] ELSE EmptyMap
    IN  Stringify([l \in DOMAIN old \cup DOMAIN all |->
                      [t \in DOMAIN Sub(old, l) \cup DOMAIN Sub(all, l) |->
                          IF t \in DOMAIN Sub(all, l) THEN all[l][t] ELSE old[l][t]]])

\* writeFileSync(this.translationCachePath, JSON.stringify(this.allTranslations)): the file
\* after the call, whatever it held before
writeFileSync(f, all) == Stringify(all)

\* nothing was written yet by this build
NotWritten == [written |-> FALSE, all |-> EmptyMap]

LoadTranslations(resp) ==
    /\ UNCHANGED <<targetLanguage, viewLang, fileLoaded, deeplKey, result>>
    /\ walkIn' = NoDoc
    /\ walkOut' = NoDoc
    /\ IF SoftSkip(textQueue, deeplKey)
       THEN /\ last' = Record("loadTranslations", "skipped", "", Len(textQueue), FALSE, <<>>, NoResponse)
            /\ UNCHANGED <<allTranslations, textQueue, file, persisted>>
       ELSE LET all == EnsureLanguage(allTranslations, targetLanguage)
                queue == Truncate(textQueue)
            IN  /\ textQueue' = queue
                /\ IF targetLanguage \notin DOMAIN languageMap
                   THEN \* languageMap[this.targetLanguage].toUpperCase() throws a TypeError
                        /\ allTranslations' = all
                        /\ last' = Record("loadTranslations", "type_error", "", Len(textQueue),
                                          FALSE, <<>>, NoResponse)
                        /\ UNCHANGED <<file, persisted>>
                   ELSE LET m == Merge(all, targetLanguage, queue, resp)
                        IN  /\ allTranslations' = m.all
                            /\ file' = IF Persists(m.outcome) THEN writeFileSync(file, m.all) ELSE file
                            /\ persisted' = IF Persists(m.outcome)
                                            THEN [written |-> TRUE, all |-> m.all] ELSE persisted
                            /\ last' = Record("loadTranslations", m.outcome, "", Len(textQueue),
                                              TRUE, queue, resp)

(***************************************************************************)
(* extractOrApplyTranslations                                              *)
(***************************************************************************)
\* Translation.isListItem
isListItem(doc) == doc.context = "list_item" /\ doc.hasText

\* mutant: a text that is already in the queue is not appended again
ensureTranslationOnce(queue, obj, sourceText) ==
    IF Truthy(obj, sourceText) \/ sourceText \in Range(queue) THEN queue
    ELSE Append(queue, sourceText)

\* Translation.ensureTranslation, on the queue
ensureTranslation(queue, obj, sourceText) ==
    IF Truthy(obj, sourceText) THEN queue ELSE Append(queue, sourceText)

\* Translation.get
get(obj, text) == IF Truthy(obj, text) THEN obj[text] ELSE text

\* Translation.heading: text.replace(/(^\w{1})|(\s+\w{1})/g, letter => letter.toUpperCase())
WordChars == {"a", "b", "x", "A", "B", "X", "_", "1"}
SpaceChars == {" "}
toUpperCase(c) ==
    CASE c = "a" -> "A" [] c = "b" -> "B" [] c = "x" -> "X" [] c = "ü" -> "Ü" [] OTHER -> c
heading(text) ==
    [i \in 1..Len(text) |->
        IF text[i] \in WordChars /\ (i = 1 \/ text[i - 1] \in SpaceChars)
        THEN toUpperCase(text[i]) ELSE text[i]]

\* if (!keep && keep !== '*' && keep !== translation.targetLanguage)
TitleIsTranslated(keep, target) == Falsy(keep) /\ keep # "*" /\ keep # target

\* the loop over the lines of a paragraph, from line i on
RECURSIVE TranslateLines(_, _, _, _)
TranslateLines(lines, i, queue, obj) ==
    IF i > Len(lines) THEN [lines |-> lines, queue |-> queue]
    ELSE IF Truthy(obj, lines[i])
         THEN TranslateLines([lines EXCEPT ![i] = obj[lines[i]]], i + 1, queue, obj)
         ELSE TranslateLines(lines, i + 1, ensureTranslation(queue, obj, lines[i]), obj)

\* the body of `if (translation.targetLanguage !== 'english')`: the node and the queue after
\* it, and whether the paragraph branch returned the node early
Payload(doc, queue, target, obj) ==
    LET li == IF isListItem(doc)
              THEN IF Truthy(obj, doc.text)
                   THEN [node |-> [doc EXCEPT !.text = obj[doc.text]], queue |-> queue]
                   ELSE [node |-> doc, queue |-> ensureTranslation(queue, obj, doc.text)]
              ELSE [node |-> doc, queue |-> queue]
        se == IF doc.context = "section" /\ TitleIsTranslated(doc.keep, target)
              THEN IF Truthy(obj, doc.text)
                   THEN [node |-> [li.node EXCEPT !.text = heading(obj[doc.text])], queue |-> li.queue]
                   ELSE [node |-> li.node, queue |-> ensureTranslation(li.queue, obj, doc.text)]
              ELSE li
    IN  IF doc.context = "paragraph"
        THEN IF ~doc.hasLines
             THEN [node |-> se.node, queue |-> se.queue, returned |-> TRUE]
             ELSE LET t == TranslateLines(doc.lines, 1, se.queue, obj)
                  IN  [node |-> [se.node EXCEPT !.lines = t.lines], queue |-> t.queue,
                       returned |-> FALSE]
        ELSE [node |-> se.node, queue |-> se.queue, returned |-> FALSE]

\* mutant: any later sibling tagged with the active language suppresses the untagged block
OverrideFollowsAny(copy, j, target) == \E k \in j..Len(copy) : copy[k].lang = target

\* mutant: only the sibling right after the untagged block is looked at
OverrideFollowsNext(copy, j, target) == j <= Len(copy) /\ copy[j].lang = target

\* the inner loop `for (let j = i + 1; ...)`: TRUE when it leaves by `continue outer`
RECURSIVE OverrideFollows(_, _, _)
OverrideFollows(copy, j, target) ==
    IF j > Len(copy) THEN FALSE
    ELSE IF Falsy(copy[j].lang) THEN FALSE
    ELSE IF copy[j].lang = target THEN TRUE
    ELSE OverrideFollows(copy, j + 1, target)

\* mutant: the tagged children of the other languages are pushed
KeepsForeignTagged(lang, target) == lang # target

\* mutant: no tagged child is pushed
KeepsNoTagged(lang, target) == FALSE

\* mutant: every tagged child is pushed
KeepsAnyTagged(lang, target) == TRUE

\* the tagged child copy[i] is pushed
KeepsTagged(lang, target) == lang = target

\* process(doc, depth) and its loop `outer` over the children, from child i on
RECURSIVE process(_, _, _, _), Scan(_, _, _, _, _, _)
\* mutant: a kept tagged child is put at the front of the list
RECURSIVE ScanUnshift(_, _, _, _, _, _)
ScanUnshift(copy, i, blocks, queue, target, obj) ==
    IF i > Len(copy) THEN [blocks |-> blocks, queue |-> queue]
    ELSE IF ~Falsy(copy[i].lang)
         THEN IF KeepsTagged(copy[i].lang, target)
              THEN ScanUnshift(copy, i + 1, <<copy[i]>> \o blocks, queue, target, obj)
              ELSE ScanUnshift(copy, i + 1, blocks, queue, target, obj)
         ELSE IF OverrideFollows(copy, i + 1, target)
              THEN ScanUnshift(copy, i + 1, blocks, queue, target, obj)
              ELSE LET r == process(copy[i], queue, target, obj)
                   IN  ScanUnshift(copy, i + 1, Append(blocks, r.node), r.queue, target, obj)

\* mutant: a kept tagged child is walked like an untagged one
RECURSIVE ScanWalksTagged(_, _, _, _, _, _)
ScanWalksTagged(copy, i, blocks, queue, target, obj) ==
    IF i > Len(copy) THEN [blocks |-> blocks, queue |-> queue]
    ELSE IF ~Falsy(copy[i].lang) /\ ~KeepsTagged(copy[i].lang, target)
         THEN ScanWalksTagged(copy, i + 1, blocks, queue, target, obj)
         ELSE IF Falsy(copy[i].lang) /\ OverrideFollows(copy, i + 1, target)
              THEN ScanWalksTagged(copy, i + 1, blocks, queue, target, obj)
              ELSE LET r == process(copy[i], queue, target, obj)
                   IN  ScanWalksTagged(copy, i + 1, Append(blocks, r.node), r.queue, target, obj)

Scan(copy, i, blocks, queue, target, obj) ==
    IF i > Len(copy) THEN [blocks |-> blocks, queue |-> queue]
    ELSE IF ~Falsy(copy[i].lang)
         THEN IF KeepsTagged(copy[i].lang, target)
              THEN Scan(copy, i + 1, Append(blocks, copy[i]), queue, target, obj)
              ELSE Scan(copy, i + 1, blocks, queue, target, obj)
         ELSE IF OverrideFollows(copy, i + 1, target)
              THEN Scan(copy, i + 1, blocks, queue, target, obj)
              ELSE LET r == process(copy[i], queue, target, obj)
                   IN  Scan(copy, i + 1, Append(blocks, r.node), r.queue, target, obj)

\* mutant: the payloads are handled under every active language
processAlways(doc, queue, target, obj) ==
    LET p == Payload(doc, queue, target, obj)
    IN  IF p.returned THEN [node |-> p.node, queue |-> p.queue]
        ELSE LET s == Scan(p.node.blocks, 1, <<>>, p.queue, target, obj)
             IN  [node |-> [p.node EXCEPT !.blocks = s.blocks], queue |-> s.queue]

process(doc, queue, target, obj) ==
    LET p == IF target # "english" THEN Payload(doc, queue, target, obj)
             ELSE [node |-> doc, queue |-> queue, returned |-> FALSE]
    IN  IF p.returned THEN [node |-> p.node, queue |-> p.queue]
        ELSE LET s == Scan(p.node.blocks, 1, <<>>, p.queue, target, obj)
             IN  [node |-> [p.node EXCEPT !.blocks = s.blocks], queue |-> s.queue]

\* the tree processor run on a loaded document
Walk(document) ==
    LET r == process(document, textQueue, targetLanguage, translations)
    IN  /\ textQueue' = r.queue
        /\ walkIn' = document
        /\ walkOut' = r.node
        /\ last' = Record("walk", "ok", "", 0, FALSE, <<>>, NoResponse)
        /\ UNCHANGED <<targetLanguage, viewLang, allTranslations, fileLoaded, file, deeplKey,
                       result, persisted>>

(***************************************************************************)
(* Documents.                                                              *)
(***************************************************************************)
Paragraph(id, lines, lang) == Node(id, "paragraph", <<>>, FALSE, lines, TRUE, lang, Undefined, <<>>)
Section(id, title, keep, lang, blocks) ==
    Node(id, "section", title, TRUE, <<>>, FALSE, lang, keep, blocks)
ListItem(id, text, lang) == Node(id, "list_item", text, TRUE, <<>>, FALSE, lang, Undefined, <<>>)
Document(blocks) == Node(0, "document", <<>>, FALSE, <<>>, FALSE, Undefined, Undefined, blocks)

\* the pages of the book the store is driven with
Pages ==
    {Document(<<Paragraph(1, <<TextA>>, Undefined)>>),
     Document(<<Section(1, TextB, Undefined, Undefined,
                        <<Paragraph(2, <<TextA, TextB>>, Undefined),
                          Paragraph(3, <<TextX>>, "german")>>)>>),
     Document(<<ListItem(1, TextB, Undefined)>>)}

\* what ./translations.json may hold when the process starts
InitialFiles ==
    {NoFile, EmptyFile,
     Stringify([german |-> (TextA :> TextX @@ TextB :> <<>>), chinese |-> (TextB :> TextX)])}

(***************************************************************************)
(* The store driven by any sequence of calls: new Translation(), then      *)
(* setLanguage, walks and loadTranslations in any order.                   *)
(***************************************************************************)
Init ==
    /\ targetLanguage = Undefined
    /\ viewLang = Undefined
    /\ allTranslations = EmptyMap
    /\ textQueue = <<>>
    /\ fileLoaded = FALSE
    /\ file \in InitialFiles
    /\ deeplKey \in BOOLEAN
    /\ last = Record("new", "ok", "", 0, FALSE, <<>>, NoResponse)
    /\ queueLang = <<>>
    /\ walkIn = NoDoc
    /\ walkOut = NoDoc
    /\ pc = "free"
    /\ components = <<>>
    /\ source = NoDoc
    /\ other = NoProcess
    /\ compIdx = 0
    /\ pagesLeft = 0
    /\ calls = 0
    /\ result = <<>>
    /\ persisted = NotWritten

Called == calls < MaxCalls /\ calls' = calls + 1 /\ UNCHANGED <<buildVars, queueLang>>

CallSetLanguage == \E lang \in LangInputs : SetLanguage(lang) /\ Called

\* the queue a walk of the document leaves behind
QueueAfter(document) == process(document, textQueue, targetLanguage, translations).queue

CallWalk ==
    \E document \in Pages :
        Len(QueueAfter(document)) <= MaxQueue /\ Walk(document) /\ Called

CallLoadTranslations ==
    \E resp \in Responses(Len(Truncate(textQueue))) : LoadTranslations(resp) /\ Called

\* new Translation() of a later process: the fields start afresh, the file is the one the
\* earlier process left
NewTranslation ==
    /\ targetLanguage' = Undefined
    /\ viewLang' = Undefined
    /\ allTranslations' = EmptyMap
    /\ textQueue' = <<>>
    /\ fileLoaded' = FALSE
    /\ last' = Record("new", "ok", "", 0, FALSE, <<>>, NoResponse)
    /\ walkIn' = NoDoc
    /\ walkOut' = NoDoc
    /\ UNCHANGED <<file, deeplKey, result, persisted>>

CallNew == NewTranslation /\ Called

Next == CallSetLanguage \/ CallWalk \/ CallLoadTranslations \/ CallNew

Spec == Init /\ [][Next]_vars

(***************************************************************************)
(* The Antora extension: the contentClassified handler of register.  For   *)
(* each component: setLanguage(component), load every page of it (the tree *)
(* processor walks it), then await loadTranslations().  An exception ends  *)
(* the handler.                                                            *)
(***************************************************************************)
ComponentNames == {"german", "chinese", "english"}

\* the component lists: every order of every non-empty set of components
ComponentLists ==
    {s \in UNION {[1..n -> ComponentNames] : n \in 1..Cardinality(ComponentNames)} :
        \A i, j \in 1..Len(s) : i # j => s[i] # s[j]}

BuildInit ==
    /\ targetLanguage = Undefined
    /\ viewLang = Undefined
    /\ allTranslations = EmptyMap
    /\ textQueue = <<>>
    /\ fileLoaded = FALSE
    /\ file \in InitialFiles
    /\ deeplKey \in BOOLEAN
    /\ last = Record("new", "ok", "", 0, FALSE, <<>>, NoResponse)
    /\ queueLang = <<>>
    /\ walkIn = NoDoc
    /\ walkOut = NoDoc
    /\ pc = "setLanguage"
    /\ components \in ComponentLists
    /\ source = NoDoc
    /\ other = NoProcess
    /\ compIdx = 1
    /\ pagesLeft = 0
    /\ calls = 0
    /\ result = <<>>
    /\ persisted = NotWritten

\* translation.setLanguage(component)
BuildSetLanguage ==
    /\ pc = "setLanguage"
    /\ SetLanguage(components[compIdx])
    /\ pc' = IF last'.outcome = "unsupported" THEN "failed" ELSE "pages"
    /\ pagesLeft' \in 1..MaxPages
    /\ UNCHANGED <<other, source, components, compIdx, queueLang, calls>>

\* asciiLoad.call(Asciidoctor, content, options) for one page of the component
BuildLoadPage ==
    /\ pc = "pages"
    /\ pagesLeft > 0
    /\ \E document \in Pages :
        /\ Len(QueueAfter(document)) <= MaxQueue
        /\ Walk(document)
        /\ queueLang' = queueLang \o
              [i \in 1..(Len(QueueAfter(document)) - Len(textQueue)) |-> targetLanguage]
    /\ pagesLeft' = pagesLeft - 1
    /\ UNCHANGED <<pc, other, source, components, compIdx, calls>>

\* await translation.loadTranslations()
BuildLoadTranslations ==
    /\ pc = "pages"
    /\ pagesLeft = 0
    /\ \E resp \in Responses(Len(Truncate(textQueue))) : LoadTranslations(resp)
    /\ queueLang' = SubSeq(queueLang, 1, Len(Truncate(textQueue)))
    /\ IF last'.outcome \in {"ok", "skipped"}
       THEN /\ compIdx' = compIdx + 1
            /\ pc' = IF compIdx < Len(components) THEN "setLanguage" ELSE "done"
       ELSE /\ compIdx' = compIdx
            /\ pc' = "failed"
    /\ UNCHANGED <<other, source, components, pagesLeft, calls>>

BuildNext == BuildSetLanguage \/ BuildLoadPage \/ BuildLoadTranslations

BuildSpec == BuildInit /\ [][BuildNext]_vars

(***************************************************************************)
(* The tree processor on its own: one walk of a tree by a store in a state *)
(* the calls above can leave it in.                                        *)
(***************************************************************************)
\* the lang attribute of a block
Tags == {Undefined, "german", "chinese"}

\* roots whose children are paragraphs, tagged or not
WideTrees ==
    UNION {{Document([i \in 1..n |-> Paragraph(i, <<TextA>>, tags[i])]) :
               tags \in [1..n -> Tags]} : n \in 0..MaxWidth}

\* the kinds of block, with their payloads and keep attributes
Blocks(id, lang, blocks) ==
    {Section(id, TextA, keep, lang, blocks) : keep \in {Undefined, "*", "german", "chinese"}}
    \cup {Node(id, "paragraph", <<>>, FALSE, <<TextA, TextB>>, TRUE, lang, Undefined, blocks),
          Node(id, "paragraph", <<>>, FALSE, <<>>, FALSE, lang, Undefined, blocks),
          Node(id, "list_item", TextB, TRUE, <<>>, FALSE, lang, Undefined, blocks),
          Node(id, "list_item", <<>>, FALSE, <<>>, FALSE, lang, Undefined, blocks),
          Node(id, "open", <<>>, FALSE, <<>>, FALSE, lang, Undefined, blocks)}

Leaves(id) == UNION {Blocks(id, lang, <<>>) : lang \in Tags}

\* roots with one child that has at most one child of its own
DeepTrees ==
    {Document(<<c>>) :
        c \in UNION {Blocks(1, lang, gs) : lang \in Tags, gs \in {<<>>} \cup {<<g>> : g \in Leaves(2)}}}

Trees == WideTrees \cup DeepTrees

\* the sub-mapping of the active view
Caches == UNION {[D -> {<<>>, TextX}] : D \in SUBSET SrcTexts}

\* (targetLanguage, viewLang) after setLanguage succeeded, before any setLanguage, and after
\* setLanguage('french') failed on a store that showed german
Views == {<<"german", "german">>, <<"english", "english">>, <<Undefined, Undefined>>,
          <<"french", "german">>}

WalkInit ==
    /\ \E v \in Views, cache \in Caches :
        /\ targetLanguage = v[1]
        /\ viewLang = v[2]
        /\ allTranslations = IF v[2] = Undefined THEN EmptyMap ELSE (v[2] :> cache)
    /\ textQueue = <<>>
    /\ fileLoaded = FALSE
    /\ file = NoFile
    /\ deeplKey = FALSE
    /\ last = Record("new", "ok", "", 0, FALSE, <<>>, NoResponse)
    /\ queueLang = <<>>
    /\ walkIn \in Trees
    /\ walkOut = NoDoc
    /\ pc = "walk"
    /\ components = <<>>
    /\ source = NoDoc
    /\ other = NoProcess
    /\ compIdx = 0
    /\ pagesLeft = 0
    /\ calls = 0
    /\ result = <<>>
    /\ persisted = NotWritten

WalkTree ==
    /\ pc = "walk"
    /\ Walk(walkIn)
    /\ pc' = "walked"
    /\ UNCHANGED <<other, source, components, compIdx, pagesLeft, queueLang, calls>>

\* a second tree processor of the registry runs over the document the first one returned
WalkAgain ==
    /\ pc = "walked"
    /\ Walk(walkOut)
    /\ pc' = "rewalked"
    /\ UNCHANGED <<other, source, components, compIdx, pagesLeft, queueLang, calls>>

WalkNext == WalkTree \/ WalkAgain

WalkSpec == WalkInit /\ [][WalkNext]_vars

(***************************************************************************)
(* The accessors on their own: ensureTranslation and get called on a store *)
(* in a state the calls above can leave it in.                             *)
(***************************************************************************)
\* Translation.ensureTranslation(sourceText)
EnsureTranslation(sourceText) ==
    /\ textQueue' = ensureTranslation(textQueue, translations, sourceText)
    /\ last' = Record("ensureTranslation", "ok", sourceText, 0, FALSE, <<>>, NoResponse)
    /\ UNCHANGED <<targetLanguage, viewLang, allTranslations, fileLoaded, file, deeplKey,
                   result, persisted, walkIn, walkOut>>

\* Translation.get(text)
Get(text) ==
    /\ result' = get(translations, text)
    /\ last' = Record("get", "ok", text, 0, FALSE, <<>>, NoResponse)
    /\ UNCHANGED <<targetLanguage, viewLang, allTranslations, textQueue, fileLoaded, file,
                   deeplKey, persisted, walkIn, walkOut>>

\* the strings handed to the accessors
Texts == SrcTexts \cup {TextX}

AccessInit ==
    /\ \E v \in Views, cache \in Caches :
        /\ targetLanguage = v[1]
        /\ viewLang = v[2]
        /\ allTranslations = IF v[2] = Undefined THEN EmptyMap ELSE (v[2] :> cache)
    /\ textQueue = <<>>
    /\ fileLoaded = FALSE
    /\ file = NoFile
    /\ deeplKey = FALSE
    /\ last = Record("new", "ok", <<>>, 0, FALSE, <<>>, NoResponse)
    /\ queueLang = <<>>
    /\ walkIn = NoDoc
    /\ walkOut = NoDoc
    /\ pc = "access"
    /\ components = <<>>
    /\ source = NoDoc
    /\ other = NoProcess
    /\ compIdx = 0
    /\ pagesLeft = 0
    /\ calls = 0
    /\ result = <<>>
    /\ persisted = NotWritten

CallEnsureTranslation ==
    /\ Len(textQueue) < MaxQueue
    /\ \E text \in Texts : EnsureTranslation(text)
    /\ UNCHANGED <<buildVars, queueLang, calls>>

CallGet ==
    /\ \E text \in Texts : Get(text)
    /\ UNCHANGED <<buildVars, queueLang, calls>>

AccessNext == CallEnsureTranslation \/ CallGet

AccessSpec == AccessInit /\ [][AccessNext]_vars

(***************************************************************************)
(* The standalone build script: the language is process.argv[2], the cache *)
(* is read when the script starts, main loads the document (the tree       *)
(* processor walks it), fetches when strings are pending and a key is set, *)
(* loads the document again and converts it.  German is the language of    *)
(* the source here, and the queue is not truncated.                        *)
(***************************************************************************)
mainLanguageMap == [german |-> "DE", english |-> "EN", chinese |-> "ZH"]

\* process.argv[2]
Arguments == {"german", "english", "chinese", "french"}

\* extractOrApplyTranslations of the script: process and its loop over the children
RECURSIVE mainProcess(_, _, _, _), mainScan(_, _, _, _, _, _)
mainScan(copy, i, blocks, queue, target, obj) ==
    IF i > Len(copy) THEN [blocks |-> blocks, queue |-> queue]
    ELSE IF ~Falsy(copy[i].lang)
         THEN IF KeepsTagged(copy[i].lang, target)
              THEN mainScan(copy, i + 1, Append(blocks, copy[i]), queue, target, obj)
              ELSE mainScan(copy, i + 1, blocks, queue, target, obj)
         ELSE IF OverrideFollows(copy, i + 1, target)
              THEN mainScan(copy, i + 1, blocks, queue, target, obj)
              ELSE LET r == mainProcess(copy[i], queue, target, obj)
                   IN  mainScan(copy, i + 1, Append(blocks, r.node), r.queue, target, obj)

mainProcess(doc, queue, target, obj) ==
    LET p == IF target # "german" THEN Payload(doc, queue, target, obj)
             ELSE [node |-> doc, queue |-> queue, returned |-> FALSE]
    IN  IF p.returned THEN [node |-> p.node, queue |-> p.queue]
        ELSE LET s == mainScan(p.node.blocks, 1, <<>>, p.queue, target, obj)
             IN  [node |-> [p.node EXCEPT !.blocks = s.blocks], queue |-> s.queue]

\* src/index.adoc as parsed
MainDocuments == Pages \cup {Document(<<c>>) : c \in Leaves(1)}

TwoPassInit ==
    /\ targetLanguage \in Arguments
    /\ viewLang = Undefined
    /\ allTranslations = EmptyMap
    /\ textQueue = <<>>
    /\ fileLoaded = FALSE
    /\ file \in InitialFiles
    /\ deeplKey \in BOOLEAN
    /\ last = Record("new", "ok", "", 0, FALSE, <<>>, NoResponse)
    /\ queueLang = <<>>
    /\ walkIn \in MainDocuments
    /\ walkOut = NoDoc
    /\ pc = "script"
    /\ components = <<>>
    /\ source = NoDoc
    /\ other = NoProcess
    /\ compIdx = 0
    /\ pagesLeft = 0
    /\ calls = 0
    /\ result = <<>>
    /\ persisted = NotWritten

\* the statements of the script before main: the language check and the read of the cache
MainScript ==
    /\ pc = "script"
    /\ IF targetLanguage \notin DOMAIN mainLanguageMap
       THEN /\ pc' = "failed"
            /\ last' = Record("script", "unsupported", targetLanguage, 0, FALSE, <<>>, NoResponse)
            /\ UNCHANGED <<viewLang, allTranslations, fileLoaded>>
       ELSE /\ pc' = "load"
            /\ allTranslations' = EnsureLanguage(IF file.exists THEN ReadCache(file) ELSE EmptyMap,
                                                 targetLanguage)
            /\ viewLang' = targetLanguage
            /\ fileLoaded' = file.exists
            /\ last' = Record("script", "ok", targetLanguage, 0, FALSE, <<>>, NoResponse)
    /\ UNCHANGED <<targetLanguage, textQueue, file, deeplKey, queueLang, walkIn, walkOut,
                   other, source, components, compIdx, pagesLeft, calls, result, persisted>>

\* let doc = asciidoc.loadFile('src/index.adoc', options)
MainLoadFile ==
    /\ pc = "load"
    /\ LET r == mainProcess(walkIn, textQueue, targetLanguage, translations)
       IN  /\ textQueue' = r.queue
           /\ walkOut' = r.node
           /\ pc' = IF Len(r.queue) > 0 /\ deeplKey THEN "fetch" ELSE "convert"
    /\ last' = Record("loadFile", "ok", "", 0, FALSE, <<>>, NoResponse)
    /\ UNCHANGED <<targetLanguage, viewLang, allTranslations, fileLoaded, file, deeplKey,
                   queueLang, walkIn, other, source, components, compIdx, pagesLeft, calls, result, persisted>>

\* await loadTranslations(), the function of the script
MainLoadTranslations ==
    /\ pc = "fetch"
    /\ \E resp \in Responses(Len(textQueue)) :
        LET m == Merge(EnsureLanguage(allTranslations, targetLanguage), targetLanguage,
                       textQueue, resp)
        IN  /\ allTranslations' = m.all
            /\ file' = IF Persists(m.outcome) THEN Stringify(m.all) ELSE file
            /\ persisted' = IF Persists(m.outcome)
                            THEN [written |-> TRUE, all |-> m.all] ELSE persisted
            /\ last' = Record("loadTranslations", m.outcome, "", Len(textQueue), TRUE,
                              textQueue, resp)
            /\ pc' = IF m.outcome = "ok" THEN "reload" ELSE "failed"
    /\ UNCHANGED <<targetLanguage, viewLang, textQueue, fileLoaded, deeplKey, queueLang,
                   walkIn, walkOut, other, source, components, compIdx, pagesLeft, calls, result>>

\* doc = asciidoc.loadFile('src/index.adoc', options), after the fetch
MainReloadFile ==
    /\ pc = "reload"
    /\ LET r == mainProcess(walkIn, textQueue, targetLanguage, translations)
       IN  /\ textQueue' = r.queue
           /\ walkOut' = r.node
    /\ pc' = "convert"
    /\ last' = Record("reloadFile", "ok", "", 0, FALSE, <<>>, NoResponse)
    /\ UNCHANGED <<targetLanguage, viewLang, allTranslations, fileLoaded, file, deeplKey,
                   queueLang, walkIn, other, source, components, compIdx, pagesLeft, calls, result, persisted>>

\* doc.convert() and the write of the output
MainConvert ==
    /\ pc = "convert"
    /\ pc' = "done"
    /\ UNCHANGED <<targetLanguage, viewLang, allTranslations, textQueue, fileLoaded, file,
                   deeplKey, last, queueLang, walkIn, walkOut, other, source, components, compIdx, pagesLeft,
                   calls, result, persisted>>

TwoPassNext ==
    MainScript \/ MainLoadFile \/ MainLoadTranslations \/ MainReloadFile \/ MainConvert

TwoPassSpec == TwoPassInit /\ [][TwoPassNext]_vars

(***************************************************************************)
(* Translation.heading on its own, applied to the titles a translation may *)
(* be: ASCII letters, a letter outside ASCII, a digit and blanks.          *)
(***************************************************************************)
TitleChars == {"a", "b", "ü", " ", "1"}

Titles == UNION {[1..n -> TitleChars] : n \in 0..MaxTitle}

\* translation.heading(text)
Heading(text) ==
    /\ result' = heading(text)
    /\ last' = Record("heading", "ok", text, 0, FALSE, <<>>, NoResponse)
    /\ UNCHANGED <<targetLanguage, viewLang, allTranslations, textQueue, fileLoaded, file,
                   deeplKey, persisted, walkIn, walkOut>>

HeadingInit ==
    /\ targetLanguage = Undefined
    /\ viewLang = Undefined
    /\ allTranslations = EmptyMap
    /\ textQueue = <<>>
    /\ fileLoaded = FALSE
    /\ file = NoFile
    /\ deeplKey = FALSE
    /\ last = Record("new", "ok", <<>>, 0, FALSE, <<>>, NoResponse)
    /\ queueLang = <<>>
    /\ walkIn = NoDoc
    /\ walkOut = NoDoc
    /\ pc = "heading"
    /\ components = <<>>
    /\ source = NoDoc
    /\ other = NoProcess
    /\ compIdx = 0
    /\ pagesLeft = 0
    /\ calls = 0
    /\ result = <<>>
    /\ persisted = NotWritten

CallHeading ==
    /\ \E text \in Titles : Heading(text)
    /\ UNCHANGED <<buildVars, queueLang, calls>>

HeadingNext == CallHeading

HeadingSpec == HeadingInit /\ [][HeadingNext]_vars

(***************************************************************************)
(* The build script run again and again on one document: each run is a new *)
(* process with a new store, `new Translation(process.argv[2])`, one walk  *)
(* of the document and one loadTranslations; the cache file is all that    *)
(* passes from one run to the next.                                        *)
(***************************************************************************)
TextC == <<"c">>
RunTexts == {TextA, TextB, TextC}

\* process.argv[2] of the runs
RunLanguage == "german"

\* one paragraph with more lines than a request takes
RunDocuments ==
    {Document(<<Paragraph(1, lines, Undefined)>>) : lines \in [1..(BatchLimit + 1) -> RunTexts]}

\* DEEPL_KEY is set in every run
RunsInit ==
    /\ targetLanguage = Undefined
    /\ viewLang = Undefined
    /\ allTranslations = EmptyMap
    /\ textQueue = <<>>
    /\ fileLoaded = FALSE
    /\ file \in InitialFiles
    /\ deeplKey = TRUE
    /\ last = Record("new", "ok", "", 0, FALSE, <<>>, NoResponse)
    /\ queueLang = <<>>
    /\ walkIn = NoDoc
    /\ walkOut = NoDoc
    /\ pc = "setLanguage"
    /\ components = <<>>
    /\ source \in RunDocuments
    /\ other = NoProcess
    /\ compIdx = 0
    /\ pagesLeft = 0
    /\ calls = 0
    /\ result = <<>>
    /\ persisted = NotWritten

runFrame == <<other, source, components, compIdx, pagesLeft, queueLang, calls>>

\* the constructor calls setLanguage(targetLanguage)
RunSetLanguage ==
    /\ pc = "setLanguage"
    /\ SetLanguage(RunLanguage)
    /\ pc' = "walk"
    /\ UNCHANGED runFrame

RunWalk ==
    /\ pc = "walk"
    /\ Walk(source)
    /\ pc' = "fetch"
    /\ UNCHANGED runFrame

\* the answers that carry a non-empty translation for each of the n texts of the request
FullResponses(n) == {[ok |-> TRUE, hasTranslations |-> TRUE, texts |-> [i \in 1..n |-> TextX]]}

\* loadTranslations answered in full; the process ends
RunFetchDelivered ==
    /\ pc = "fetch"
    /\ \E resp \in FullResponses(Len(Truncate(textQueue))) : LoadTranslations(resp)
    /\ pc' = "exit"
    /\ UNCHANGED runFrame

\* loadTranslations answered in any other way; the process ends
RunFetchOther ==
    /\ pc = "fetch"
    /\ \E resp \in Responses(Len(Truncate(textQueue))) \ FullResponses(Len(Truncate(textQueue))) :
           LoadTranslations(resp)
    /\ pc' = "exit"
    /\ UNCHANGED runFrame

\* the next run starts with a new store
RunNew ==
    /\ pc = "exit"
    /\ NewTranslation
    /\ pc' = "setLanguage"
    /\ UNCHANGED runFrame

RunsNext == RunSetLanguage \/ RunWalk \/ RunFetchDelivered \/ RunFetchOther \/ RunNew

RunsSpec == RunsInit /\ [][RunsNext]_vars

(***************************************************************************)
(* Two processes of the build script that share ./translations.json. Each  *)
(* has a store of its own and makes one setLanguage, one walk and one      *)
(* loadTranslations; the scheduler may pass from one to the other between  *)
(* any two of these calls.                                                 *)
(***************************************************************************)
\* process.argv[2] of a process
ProcLanguages == {"german", "chinese"}

\* the document both processes convert
ProcDocuments ==
    {Document(<<Paragraph(1, <<TextA>>, Undefined)>>),
     Document(<<Paragraph(1, <<TextA, TextB>>, Undefined)>>)}

\* a process that has constructed its store and called nothing yet
NewProcess ==
    [targetLanguage |-> Undefined, viewLang |-> Undefined, allTranslations |-> EmptyMap,
     textQueue |-> <<>>, fileLoaded |-> FALSE, pc |-> "setLanguage",
     last |-> Record("new", "ok", "", 0, FALSE, <<>>, NoResponse)]

SharedInit ==
    /\ targetLanguage = Undefined
    /\ viewLang = Undefined
    /\ allTranslations = EmptyMap
    /\ textQueue = <<>>
    /\ fileLoaded = FALSE
    /\ file \in InitialFiles
    /\ deeplKey = TRUE
    /\ last = Record("new", "ok", "", 0, FALSE, <<>>, NoResponse)
    /\ queueLang = <<>>
    /\ walkIn = NoDoc
    /\ walkOut = NoDoc
    /\ pc = "setLanguage"
    /\ components = <<>>
    /\ source \in ProcDocuments
    /\ other = NewProcess
    /\ compIdx = 0
    /\ pagesLeft = 0
    /\ calls = 0
    /\ result = <<>>
    /\ persisted = NotWritten

ProcSetLanguage ==
    /\ pc = "setLanguage"
    /\ \E lang \in ProcLanguages : SetLanguage(lang)
    /\ pc' = "walk"
    /\ UNCHANGED runFrame

ProcWalk ==
    /\ pc = "walk"
    /\ Walk(source)
    /\ pc' = "fetch"
    /\ UNCHANGED runFrame

ProcLoadTranslations ==
    /\ pc = "fetch"
    /\ \E resp \in Responses(Len(Truncate(textQueue))) : LoadTranslations(resp)
    /\ pc' = "exit"
    /\ UNCHANGED runFrame

\* the scheduler runs the other process
ProcSwitch ==
    /\ other.pc # "none"
    /\ targetLanguage' = other.targetLanguage
    /\ viewLang' = other.viewLang
    /\ allTranslations' = other.allTranslations
    /\ textQueue' = other.textQueue
    /\ fileLoaded' = other.fileLoaded
    /\ pc' = other.pc
    /\ last' = other.last
    /\ other' = [targetLanguage |-> targetLanguage, viewLang |-> viewLang,
                 allTranslations |-> allTranslations, textQueue |-> textQueue,
                 fileLoaded |-> fileLoaded, pc |-> pc, last |-> last]
    /\ walkIn' = NoDoc
    /\ walkOut' = NoDoc
    /\ UNCHANGED <<file, deeplKey, result, persisted, source, components, compIdx, pagesLeft,
                   queueLang, calls>>

SharedNext == ProcSetLanguage \/ ProcWalk \/ ProcLoadTranslations \/ ProcSwitch

SharedSpec == SharedInit /\ [][SharedNext]_vars

(***************************************************************************)
(* Properties.                                                             *)
(***************************************************************************)
\* the indices of the run of tagged siblings right after child i
RECURSIVE RunAfter(_, _)
RunAfter(cs, i) ==
    IF i + 1 > Len(cs) \/ Falsy(cs[i + 1].lang) THEN {} ELSE {i + 1} \cup RunAfter(cs, i + 1)

Ids(bs) == {bs[k].id : k \in 1..Len(bs)}

\* the blocks of the group of untagged child i that are tagged with language L
Matches(cs, i, L) == {cs[j].id : j \in {k \in RunAfter(cs, i) : cs[k].lang = L}}

\* the blocks of the group of untagged child i that are in the resolved list
KeptOfGroup(cs, i, resolved) == Ids(resolved) \cap {cs[j].id : j \in RunAfter(cs, i) \cup {i}}

\* C1 as stated: after the scan of the root's children, each group of an untagged child and
\* the run of tagged siblings after it has at most one block left: the one tagged with the
\* active language if there is one, else the untagged block.
C1_AtMostOneOfGroup ==
    pc = "walked" =>
        \A i \in 1..Len(walkIn.blocks) :
            Falsy(walkIn.blocks[i].lang) =>
                LET kept == KeptOfGroup(walkIn.blocks, i, walkOut.blocks)
                    matches == Matches(walkIn.blocks, i, targetLanguage)
                IN  /\ Cardinality(kept) <= 1
                    /\ IF matches = {} THEN kept = {walkIn.blocks[i].id} ELSE kept \subseteq matches

\* C1 amended: of each group the scan leaves the untagged block alone when no sibling of the
\* run is tagged with the active language, and otherwise every sibling of the run that is
\* tagged with the active language (one or several) and not the untagged block.
C1_GroupResolved ==
    pc = "walked" =>
        \A i \in 1..Len(walkIn.blocks) :
            Falsy(walkIn.blocks[i].lang) =>
                LET kept == KeptOfGroup(walkIn.blocks, i, walkOut.blocks)
                    matches == Matches(walkIn.blocks, i, targetLanguage)
                IN  kept = IF matches = {} THEN {walkIn.blocks[i].id} ELSE matches

\* a group with two siblings tagged with the active language has been resolved to both
C1_Witness ==
    /\ pc = "walked"
    /\ \E i \in 1..Len(walkIn.blocks) :
        /\ Falsy(walkIn.blocks[i].lang)
        /\ Cardinality(Matches(walkIn.blocks, i, targetLanguage)) = 2
        /\ Cardinality(RunAfter(walkIn.blocks, i)) = 3
        /\ KeptOfGroup(walkIn.blocks, i, walkOut.blocks) = Matches(walkIn.blocks, i, targetLanguage)

\* C2 as stated: in a build, the request sent while language L is active carries only
\* strings that were pushed to the queue while L was active.
C2_RequestOfActiveLanguageOnly ==
    (last.op = "loadTranslations" /\ last.requested) =>
        \A i \in 1..Len(queueLang) : queueLang[i] = targetLanguage

\* the queue index (from 1) of the last occurrence of a text
LastOccurrence(queue, t) ==
    CHOOSE i \in 1..Len(queue) : queue[i] = t /\ \A j \in (i + 1)..Len(queue) : queue[j] # t

\* the step is a call of loadTranslations
LoadStep == calls' # calls /\ last'.op = "loadTranslations"

\* C3 as stated: when the service answers with one translation per distinct submitted text,
\* in order, loadTranslations succeeds and the i-th distinct text gets the i-th translation.
C3_DistinctCorrelation ==
    (/\ last.op = "loadTranslations" /\ last.requested
     /\ last.resp.ok /\ last.resp.hasTranslations
     /\ Len(last.resp.texts) = Len(EntryOrder(last.submitted))) =>
        /\ last.outcome = "ok"
        /\ \A k \in 1..Len(EntryOrder(last.submitted)) :
              allTranslations[targetLanguage][EntryOrder(last.submitted)[k]] = last.resp.texts[k]

\* C3 amended: the request carries one text per queue entry, duplicates included;
\* loadTranslations succeeds exactly when the answer holds a translation for every queue
\* entry, and then each distinct source string has the translation at the index of its last
\* occurrence in the queue.
C3_LastOccurrenceCorrelation ==
    (/\ last.op = "loadTranslations" /\ last.requested
     /\ last.resp.ok /\ last.resp.hasTranslations) =>
        /\ last.submitted = textQueue
        /\ last.outcome = "ok" <=> Len(last.resp.texts) >= Len(last.submitted)
        /\ last.outcome = "ok" =>
              \A t \in Range(last.submitted) :
                  allTranslations[targetLanguage][t]
                      = last.resp.texts[LastOccurrence(last.submitted, t)]

\* a queue with one string twice was answered with two different translations
C3_Witness ==
    /\ last.op = "loadTranslations" /\ last.outcome = "ok"
    /\ Len(last.submitted) = 2 /\ last.submitted[1] = last.submitted[2]
    /\ Len(last.resp.texts) = 2 /\ last.resp.texts[1] # last.resp.texts[2]

\* C4 as stated: a call that fails because a translation is missing at an index leaves the
\* active sub-mapping, allTranslations and the cache file as they were.
C4_CorrelationErrorAtomic ==
    [][(LoadStep /\ last'.outcome = "missing_translation") =>
          (translations' = translations /\ allTranslations' = allTranslations /\ file' = file)]_vars

\* C5: a call whose request is answered with a non-success status fails with the HTTP error,
\* and leaves allTranslations and the cache file as they were.
C5_TransportError ==
    [][(LoadStep /\ last'.requested /\ ~last'.resp.ok) =>
          (/\ last'.outcome = "http_error"
           /\ allTranslations' = allTranslations
           /\ file' = file)]_vars

\* a request was answered with a non-success status while a cache file existed
C5_Witness == last.op = "loadTranslations" /\ last.outcome = "http_error" /\ file.exists

\* the block of a child list with the given id
Child(doc, id) == CHOOSE c \in Range(doc.blocks) : c.id = id

\* every string without a truthy entry in obj is shown as in the source
RECURSIVE ShowsOriginal(_, _, _)
ShowsOriginal(in, out, obj) ==
    /\ (in.hasText /\ ~Truthy(obj, in.text)) => out.text = in.text
    /\ Len(out.lines) = Len(in.lines)
    /\ \A i \in 1..Len(in.lines) : ~Truthy(obj, in.lines[i]) => out.lines[i] = in.lines[i]
    /\ \A k \in 1..Len(out.blocks) :
          ShowsOriginal(Child(in, out.blocks[k].id), out.blocks[k], obj)

\* C6: loadTranslations called with an empty queue or without DEEPL_KEY returns without an
\* error and without a request, and leaves allTranslations, the queue and the cache file as
\* they were; every walk shows the source text of each string that is not cached.
C6_SoftSkip ==
    /\ [][(LoadStep /\ (Len(textQueue) = 0 \/ ~deeplKey)) =>
             (/\ last'.outcome = "skipped" /\ ~last'.requested
              /\ allTranslations' = allTranslations
              /\ textQueue' = textQueue
              /\ file' = file)]_vars
    /\ [](last.op = "walk" => ShowsOriginal(walkIn, walkOut, translations))

\* loadTranslations returned early with strings pending, for want of a key
C6_Witness ==
    /\ last.op = "loadTranslations" /\ last.outcome = "skipped"
    /\ ~deeplKey /\ Len(textQueue) > 0 /\ viewLang = "german"

\* C7: a call that sends a request with more than the batch limit of strings pending
\* submits exactly the first BatchLimit queue entries and drops the rest from the queue; when
\* the answer carries its translations and the call succeeds, the active sub-mapping has
\* gained entries for exactly the submitted strings and its other entries are unchanged.
C7_Truncation ==
    [][(LoadStep /\ last'.requested /\ Len(textQueue) > BatchLimit) =>
          (/\ last'.submitted = SubSeq(textQueue, 1, BatchLimit)
           /\ textQueue' = last'.submitted
           /\ (last'.outcome = "ok" /\ last'.resp.hasTranslations) =>
                 /\ DOMAIN translations' = DOMAIN translations \cup Range(last'.submitted)
                 /\ \A t \in DOMAIN translations \ Range(last'.submitted) :
                       translations'[t] = translations[t])]_vars

\* a queue longer than the batch limit was cut, submitted and answered in full
C7_Witness ==
    /\ last.op = "loadTranslations" /\ last.outcome = "ok" /\ last.resp.hasTranslations
    /\ last.pending > BatchLimit
    /\ Len(last.submitted) = BatchLimit

\* the scan of the children is reached: the paragraph branch did not return the node
Scanned(doc, L) == ~(L # "english" /\ doc.context = "paragraph" /\ ~doc.hasLines)

\* below doc, no block carries a lang attribute other than L
RECURSIVE NoForeignTag(_, _)
NoForeignTag(doc, L) ==
    \A k \in 1..Len(doc.blocks) :
        /\ Falsy(doc.blocks[k].lang) \/ doc.blocks[k].lang = L
        /\ NoForeignTag(doc.blocks[k], L)

\* C8 as stated: after the walk of the root no surviving block at any depth carries a lang
\* attribute other than the active language.
C8_NoForeignDescendant == pc = "walked" => NoForeignTag(walkOut, targetLanguage)

\* the children of a scanned node are untagged and walked in turn, or tagged L and as parsed
RECURSIVE ResolvedBelow(_, _, _)
ResolvedBelow(in, out, L) ==
    IF ~Scanned(in, L) THEN out.blocks = in.blocks
    ELSE \A k \in 1..Len(out.blocks) :
            LET c == out.blocks[k]
            IN  IF Falsy(c.lang) THEN ResolvedBelow(Child(in, c.id), c, L)
                ELSE c.lang = L /\ c = Child(in, c.id)

\* C8 amended: the walker is applied to every surviving child without a lang attribute; a
\* child kept because its lang equals the active language is pushed as parsed and not
\* walked.  So every child of a node whose children were scanned (the root and each
\* surviving untagged block below it, but for a paragraph without lines under a non-source
\* language) is untagged or tagged with the active language, and the blocks below a kept
\* tagged child are as parsed.
C8_UntaggedSurvivorsWalked == pc = "walked" => ResolvedBelow(walkIn, walkOut, targetLanguage)

\* a child tagged with the active language was kept with a child of another language
C8_Witness ==
    /\ pc = "walked"
    /\ \E k \in 1..Len(walkOut.blocks) :
          /\ walkOut.blocks[k].lang = targetLanguage
          /\ \E g \in Range(walkOut.blocks[k].blocks) : ~Falsy(g.lang) /\ g.lang # targetLanguage

\* C9 as stated: under a non-source active language L the title of a section is left alone
\* and not enqueued exactly when keep is "*" or L; otherwise it is replaced by its cached
\* translation, or enqueued when there is none.
C9_KeepDecidesTitle ==
    (/\ pc = "walked"
     /\ targetLanguage = viewLang /\ targetLanguage \notin {"english", Undefined}
     /\ Len(walkIn.blocks) = 1
     /\ walkIn.blocks[1].context = "section" /\ Falsy(walkIn.blocks[1].lang)
     /\ walkIn.blocks[1].blocks = <<>>) =>
        LET title == walkIn.blocks[1].text
            keep == walkIn.blocks[1].keep
            shown == walkOut.blocks[1].text
        IN  IF keep \in {"*", targetLanguage}
            THEN shown = title /\ textQueue = <<>>
            ELSE IF Truthy(translations, title)
                 THEN shown = heading(translations[title]) /\ textQueue = <<>>
                 ELSE shown = title /\ textQueue = <<title>>

\* C10 as stated: every call of setLanguage with a non-empty identifier that is not
\* supported fails with the unsupported-language error.
C10_UnsupportedAlwaysFails ==
    (last.op = "setLanguage" /\ ~Falsy(last.arg) /\ last.arg \notin DOMAIN languageMap) =>
        last.outcome = "unsupported"

\* C11 as stated: ensureTranslation(text) appends text to the queue when text has no entry
\* in the active sub-mapping, and leaves the queue as it is when text has an entry, whatever
\* the stored value.
C11_EnqueuesIffAbsent ==
    [][last'.op = "ensureTranslation" =>
          textQueue' = IF last'.arg \in DOMAIN translations
                       THEN textQueue ELSE Append(textQueue, last'.arg)]_vars

\* C12 as stated: get(text) returns the stored translation when text has an entry in the
\* active sub-mapping and text itself when it has none.
C12_GetReturnsEntry ==
    last.op = "get" =>
        result = IF last.arg \in DOMAIN translations THEN translations[last.arg] ELSE last.arg

\* the payloads of out and of every block below it are those of in
RECURSIVE SamePayloads(_, _)
SamePayloads(in, out) ==
    /\ out.text = in.text
    /\ out.lines = in.lines
    /\ \A k \in 1..Len(out.blocks) : SamePayloads(Child(in, out.blocks[k].id), out.blocks[k])

\* the identities of the children the resolver keeps under language L, from child i on
RECURSIVE ResolvedIds(_, _, _)
ResolvedIds(cs, i, L) ==
    IF i > Len(cs) THEN <<>>
    ELSE LET kept == IF Falsy(cs[i].lang) THEN Matches(cs, i, L) = {} ELSE cs[i].lang = L
         IN  (IF kept THEN <<cs[i].id>> ELSE <<>>) \o ResolvedIds(cs, i + 1, L)

\* the child list of out, and of every untagged block below it, is the resolved one
RECURSIVE ResolverRan(_, _, _)
ResolverRan(in, out, L) ==
    /\ [k \in 1..Len(out.blocks) |-> out.blocks[k].id] = ResolvedIds(in.blocks, 1, L)
    /\ \A k \in 1..Len(out.blocks) :
          Falsy(out.blocks[k].lang) => ResolverRan(Child(in, out.blocks[k].id), out.blocks[k], L)

\* C13: under the source language english a walk enqueues no string and changes no section
\* title, paragraph line or list-item text, whatever the cache holds, and the child list of
\* every visited node is resolved.
C13_SourcePassThrough ==
    (pc = "walked" /\ targetLanguage = "english") =>
        /\ textQueue = <<>>
        /\ SamePayloads(walkIn, walkOut)
        /\ ResolverRan(walkIn, walkOut, "english")

\* under english a section whose title is cached was walked and its tagged child dropped
C13_Witness ==
    /\ pc = "walked" /\ targetLanguage = "english"
    /\ Len(walkIn.blocks) = 1 /\ Len(walkOut.blocks) = 1
    /\ walkIn.blocks[1].context = "section"
    /\ Truthy(translations, walkIn.blocks[1].text)
    /\ Len(walkIn.blocks[1].blocks) = 1
    /\ walkOut.blocks[1].blocks = <<>>

\* every section title, list-item text and paragraph line of the tree has a translation
RECURSIVE AllCached(_, _)
AllCached(doc, obj) ==
    /\ doc.hasText => Truthy(obj, doc.text)
    /\ \A i \in 1..Len(doc.lines) : Truthy(obj, doc.lines[i])
    /\ \A k \in 1..Len(doc.blocks) : AllCached(doc.blocks[k], obj)

\* C14 as stated: when every fragment of a tree is cached for the active language, a second
\* run of the walker over the walked tree leaves the payloads as the first run left them and
\* the queue empty.
C14_WalkerIdempotent ==
    [][(/\ pc = "walked" /\ pc' = "rewalked"
        /\ targetLanguage = viewLang
        /\ AllCached(walkIn, translations)) =>
          (walkOut' = walkOut /\ textQueue' = <<>>)]_vars

\* C15: an untagged child of the root is in the resolved list if and only if no block of the
\* run of tagged siblings right after it is tagged with the active language.
C15_UntaggedKeptIffNoOverride ==
    pc = "walked" =>
        \A i \in 1..Len(walkIn.blocks) :
            Falsy(walkIn.blocks[i].lang) =>
                (walkIn.blocks[i].id \in Ids(walkOut.blocks)
                    <=> \A j \in RunAfter(walkIn.blocks, i) :
                            walkIn.blocks[j].lang # targetLanguage)

\* [A, B, C(other), D(active)]: A, cut off from the run by B, is kept and B is dropped
C15_Witness ==
    /\ pc = "walked" /\ Len(walkIn.blocks) = 4
    /\ Falsy(walkIn.blocks[1].lang) /\ Falsy(walkIn.blocks[2].lang)
    /\ ~Falsy(walkIn.blocks[3].lang) /\ walkIn.blocks[3].lang # targetLanguage
    /\ walkIn.blocks[4].lang = targetLanguage
    /\ Ids(walkOut.blocks) = {walkIn.blocks[1].id, walkIn.blocks[4].id}

\* C16: a child of the root that carries a lang attribute is in the resolved list if and only
\* if its lang is the active language.
C16_TaggedKeptIffActive ==
    pc = "walked" =>
        \A k \in 1..Len(walkIn.blocks) :
            ~Falsy(walkIn.blocks[k].lang) =>
                (walkIn.blocks[k].id \in Ids(walkOut.blocks)
                    <=> walkIn.blocks[k].lang = targetLanguage)

\* [B(lang=german)] under french resolved to the empty list
C16_Witness ==
    /\ pc = "walked" /\ targetLanguage = "french"
    /\ Len(walkIn.blocks) = 1 /\ walkIn.blocks[1].lang = "german"
    /\ walkOut.blocks = <<>>

\* the first block of the group of untagged child i that is tagged with language L
FirstMatch(cs, i, L) ==
    LET js == {k \in RunAfter(cs, i) : cs[k].lang = L}
    IN  cs[CHOOSE j \in js : \A k \in js : j <= k].id

\* C17 as stated: of two or more siblings tagged with the active language that follow an
\* untagged block, only the first is in the resolved list.
C17_OnlyFirstMatchKept ==
    pc = "walked" =>
        \A i \in 1..Len(walkIn.blocks) :
            (/\ Falsy(walkIn.blocks[i].lang)
             /\ Cardinality(Matches(walkIn.blocks, i, targetLanguage)) >= 2) =>
                Matches(walkIn.blocks, i, targetLanguage) \cap Ids(walkOut.blocks)
                    = {FirstMatch(walkIn.blocks, i, targetLanguage)}

\* C17 amended: of two or more siblings tagged with the active language that follow an
\* untagged block, every one is in the resolved list, and the untagged block is not.
C17_EveryMatchKept ==
    pc = "walked" =>
        \A i \in 1..Len(walkIn.blocks) :
            (/\ Falsy(walkIn.blocks[i].lang)
             /\ Cardinality(Matches(walkIn.blocks, i, targetLanguage)) >= 2) =>
                /\ Matches(walkIn.blocks, i, targetLanguage) \subseteq Ids(walkOut.blocks)
                /\ walkIn.blocks[i].id \notin Ids(walkOut.blocks)

\* [A, B(active), C(active)] resolved to [B, C]
C17_Witness ==
    /\ pc = "walked" /\ Len(walkIn.blocks) = 3
    /\ Falsy(walkIn.blocks[1].lang)
    /\ walkIn.blocks[2].lang = targetLanguage /\ walkIn.blocks[3].lang = targetLanguage
    /\ [k \in 1..Len(walkOut.blocks) |-> walkOut.blocks[k].id]
          = <<walkIn.blocks[2].id, walkIn.blocks[3].id>>

\* the place of the block with the given id in a child list
Pos(cs, id) == CHOOSE i \in 1..Len(cs) : cs[i].id = id

\* the child list of out, and of every block below it, is a subsequence of that of in
RECURSIVE SubsequenceBelow(_, _)
SubsequenceBelow(in, out) ==
    /\ \A k \in 1..Len(out.blocks) : out.blocks[k].id \in Ids(in.blocks)
    /\ \A k, m \in 1..Len(out.blocks) :
          k < m => Pos(in.blocks, out.blocks[k].id) < Pos(in.blocks, out.blocks[m].id)
    /\ \A k \in 1..Len(out.blocks) :
          SubsequenceBelow(Child(in, out.blocks[k].id), out.blocks[k])

\* C18: the resolved child list of every node is a subsequence of its original child list:
\* no block is added or duplicated and the kept blocks keep their order.
C18_ResolvedIsSubsequence == pc = "walked" => SubsequenceBelow(walkIn, walkOut)

\* of four children two were kept: a walked untagged one and a tagged one after it
C18_Witness ==
    /\ pc = "walked" /\ Len(walkIn.blocks) = 4 /\ Len(walkOut.blocks) = 2
    /\ Falsy(walkOut.blocks[1].lang)
    /\ walkOut.blocks[2].lang = targetLanguage

\* the step is the first call on a store constructed after a write of the file, it is a
\* setLanguage, and it reads the file
FreshLoadStep ==
    /\ last.op = "new" /\ persisted.written
    /\ calls' # calls /\ last'.op = "setLanguage"
    /\ ~fileLoaded /\ fileLoaded'

\* C19 as stated: a fresh store that reads the file through its first setLanguage holds a
\* structure identical to the one that was written.
C19_RoundTripIdentical == [][FreshLoadStep => allTranslations' = persisted.all]_vars

\* C19 amended: the fresh store holds every language and every entry of the structure that
\* was written, unchanged, and nothing else but an empty sub-mapping for the language it was
\* set to, when the written structure has none for it.
C19_RoundTripPlusActive ==
    [][FreshLoadStep => allTranslations' = EnsureLanguage(persisted.all, last'.arg)]_vars

\* a fresh store has read a written file that holds a translation, and was set to a language
\* the file has no sub-mapping for
C19_Witness ==
    /\ persisted.written /\ fileLoaded /\ textQueue = <<>>
    /\ last.op = "setLanguage" /\ last.outcome = "ok"
    /\ targetLanguage \notin DOMAIN persisted.all
    /\ \E l \in DOMAIN persisted.all : \E t \in DOMAIN persisted.all[l] :
          persisted.all[l][t] = TextX /\ allTranslations[l][t] = TextX

\* C20 as stated: one store reads the file at most once, and a read keeps every entry that
\* is held in memory.
C20_ReadOnceKeepsMemory ==
    [][/\ (fileLoaded /\ last'.op # "new") => fileLoaded'
       /\ (~fileLoaded /\ fileLoaded') =>
             \A l \in DOMAIN allTranslations : \A t \in DOMAIN allTranslations[l] :
                 /\ l \in DOMAIN allTranslations'
                 /\ t \in DOMAIN allTranslations'[l]
                 /\ allTranslations'[l][t] = allTranslations[l][t]]_vars

\* C21: whenever loadTranslations has sent a request and returned without an error, the file
\* holds the serialization of the whole allTranslations in memory: every language, and every
\* translation that call wrote.
C21_PersistedOnSuccess ==
    (last.op = "loadTranslations" /\ last.requested /\ last.outcome = "ok") =>
        /\ file.exists /\ ~file.empty
        /\ file.langs = DOMAIN allTranslations
        /\ \A l \in DOMAIN allTranslations : \A t \in DOMAIN allTranslations[l] :
              <<l, t, allTranslations[l][t]>> \in file.members
        /\ \A m \in file.members :
              /\ m[1] \in DOMAIN allTranslations
              /\ m[2] \in DOMAIN allTranslations[m[1]]
              /\ m[3] = allTranslations[m[1]][m[2]]
        /\ last.resp.hasTranslations =>
              \A t \in Range(last.submitted) :
                  <<targetLanguage, t, allTranslations[targetLanguage][t]>> \in file.members

\* a successful call wrote a translation while allTranslations held a second language
C21_Witness ==
    /\ last.op = "loadTranslations" /\ last.requested /\ last.outcome = "ok"
    /\ Cardinality(DOMAIN allTranslations) >= 2
    /\ \E t \in Range(last.submitted) : allTranslations[targetLanguage][t] = TextX
    /\ \E l \in DOMAIN allTranslations \ {targetLanguage} : DOMAIN allTranslations[l] # {}

\* the entry of obj for a text, or a string no document holds when there is none
Tr(obj, t) == IF t \in DOMAIN obj THEN obj[t] ELSE <<"?">>

\* every fragment the walker handles in out, and in the walked blocks below it, is the
\* entry of obj for the fragment of in it stands for
RECURSIVE Applied(_, _, _)
Applied(in, out, obj) ==
    /\ isListItem(in) => out.text = Tr(obj, in.text)
    /\ (in.context = "section" /\ Falsy(in.keep)) => out.text = heading(Tr(obj, in.text))
    /\ (in.context = "paragraph" /\ in.hasLines) =>
          out.lines = [i \in 1..Len(in.lines) |-> Tr(obj, in.lines[i])]
    /\ \A k \in 1..Len(out.blocks) :
          Falsy(out.blocks[k].lang) => Applied(Child(in, out.blocks[k].id), out.blocks[k], obj)

\* the answer carried a non-empty translation for every text of the request
Delivered(rec) ==
    /\ rec.resp.ok /\ rec.resp.hasTranslations
    /\ Len(rec.resp.texts) >= Len(rec.submitted)
    /\ \A i \in 1..Len(rec.resp.texts) : rec.resp.texts[i] # <<>>

\* C22: the second load of the document starts only after the fetch has returned without an
\* error, merged its translations into the cache and written the file; when the answer
\* carried a translation for every submitted string, the second walk replaces every fragment
\* the walker handles by its translation and enqueues nothing.
C22_TwoPassOrdering ==
    /\ [](pc = "reload" =>
            /\ last.op = "loadTranslations" /\ last.requested /\ last.outcome = "ok"
            /\ last.submitted = textQueue
            /\ persisted = [written |-> TRUE, all |-> allTranslations]
            /\ last.resp.hasTranslations =>
                  \A t \in Range(textQueue) :
                      Tr(translations, t) = Tr(last.resp.texts, LastOccurrence(textQueue, t)))
    /\ [][(pc = "reload" /\ pc' = "convert" /\ Delivered(last)) =>
             (textQueue' = textQueue /\ Applied(walkIn, walkOut', translations))]_vars

\* without a cache file, the second load shows the title and both lines of the section page
\* in the translations the fetch brought
C22_Witness ==
    /\ pc = "convert" /\ last.op = "reloadFile" /\ ~fileLoaded
    /\ Len(textQueue) = 3
    /\ Len(walkOut.blocks) = 1
    /\ walkIn.blocks[1].context = "section" /\ walkOut.blocks[1].text = heading(TextX)
    /\ Len(walkOut.blocks[1].blocks) = 1
    /\ walkOut.blocks[1].blocks[1].lines = <<TextX, TextX>>

\* the step is the handler's call of loadTranslations for the current component
BuildLoadStep == pc = "pages" /\ pc' # "pages"

\* C23: in a build with a key, the handler sends exactly one request for each language that
\* has strings pending when its pages are loaded, and never a second one for a language:
\* the components are distinct, each gets one call of loadTranslations, made while it is the
\* active language, the call sends one request exactly when strings are pending and the key is
\* set, and no other step sends a request.
C23_OneRequestPerLanguage ==
    /\ [](\A i, j \in 1..Len(components) : components[i] = components[j] => i = j)
    /\ [][BuildLoadStep =>
             (/\ last'.op = "loadTranslations"
              /\ targetLanguage = components[compIdx]
              /\ last'.requested <=> (deeplKey /\ Len(textQueue) > 0)
              /\ pc' = "failed" \/ compIdx' = compIdx + 1)]_vars
    /\ [][~BuildLoadStep => (~last'.requested /\ compIdx' = compIdx)]_vars

\* a build of three languages has ended and the request for its last language was sent
C23_Witness ==
    /\ pc = "done" /\ deeplKey /\ Len(components) = 3
    /\ last.op = "loadTranslations" /\ last.requested
    /\ targetLanguage = components[3]
    /\ persisted.written

\* the first character of the text and the first character after each blank, in upper case
UpperFirsts(text) ==
    [i \in 1..Len(text) |->
        IF i = 1 \/ text[i - 1] \in SpaceChars THEN toUpperCase(text[i]) ELSE text[i]]

\* C24 as stated: heading upper-cases the first character of the string and the first
\* character after each run of whitespace.
C24_HeadingUpperCasesFirsts == last.op = "heading" => result = UpperFirsts(last.arg)

\* the fragments of a visited node are shown translated when cached and as they were otherwise
RECURSIVE FragmentsHandled(_, _, _, _)
FragmentsHandled(in, out, L, obj) ==
    /\ isListItem(in) =>
           out.text = IF Truthy(obj, in.text) THEN obj[in.text] ELSE in.text
    /\ (in.context = "paragraph" /\ in.hasLines) =>
           /\ Len(out.lines) = Len(in.lines)
           /\ \A i \in 1..Len(in.lines) :
                  out.lines[i] = IF Truthy(obj, in.lines[i]) THEN obj[in.lines[i]]
                                 ELSE in.lines[i]
    /\ Scanned(in, L) =>
           \A c \in Range(out.blocks) :
               Falsy(c.lang) => FragmentsHandled(Child(in, c.id), c, L, obj)

\* the uncached fragments of a node; the title of a section counts when its keep attribute is
\* unset (and, before any setLanguage, never: undefined === undefined)
OwnPending(doc, L, obj) ==
    (IF isListItem(doc) /\ ~Truthy(obj, doc.text) THEN <<doc.text>> ELSE <<>>)
    \o (IF doc.context = "section" /\ Falsy(doc.keep) /\ doc.keep # L /\ ~Truthy(obj, doc.text)
        THEN <<doc.text>> ELSE <<>>)
    \o (IF doc.context = "paragraph" /\ doc.hasLines
        THEN SelectSeq(doc.lines, LAMBDA t : ~Truthy(obj, t)) ELSE <<>>)

\* the uncached fragments of the visited nodes below and including doc, in pre-order: the
\* visited children are the untagged ones that no sibling tagged with L overrides
RECURSIVE Pending(_, _, _), PendingOfChildren(_, _, _, _)
Pending(doc, L, obj) ==
    OwnPending(doc, L, obj)
    \o (IF Scanned(doc, L) THEN PendingOfChildren(doc.blocks, 1, L, obj) ELSE <<>>)
PendingOfChildren(cs, i, L, obj) ==
    IF i > Len(cs) THEN <<>>
    ELSE (IF Falsy(cs[i].lang) /\ Matches(cs, i, L) = {} THEN Pending(cs[i], L, obj) ELSE <<>>)
         \o PendingOfChildren(cs, i + 1, L, obj)

\* C25: under an active language other than english a walk shows each list-item text and each
\* paragraph line of a visited node translated when it is cached and unchanged when it is
\* not, and the queue it leaves holds the uncached fragments of the visited nodes in
\* pre-order, one entry per occurrence.
C25_FragmentsReplacedOrEnqueued ==
    (pc = "walked" /\ targetLanguage # "english") =>
        /\ FragmentsHandled(walkIn, walkOut, targetLanguage, translations)
        /\ textQueue = Pending(walkIn, targetLanguage, translations)

C25_Witness ==
    /\ pc = "walked" /\ targetLanguage = "german" /\ viewLang = "german"
    /\ Len(walkOut.blocks) = 1
    /\ walkIn.blocks[1].lines = <<TextA, TextB>>
    /\ walkOut.blocks[1].lines = <<TextX, TextB>>
    /\ Len(walkOut.blocks[1].blocks) = 1
    /\ isListItem(walkOut.blocks[1].blocks[1])
    /\ walkOut.blocks[1].blocks[1].text = TextB
    /\ textQueue = <<TextB, TextB>>

\* the strings of the document that the cache file holds a non-empty translation for
CachedInFile(f) ==
    {t \in UNION {Range(b.lines) : b \in Range(source.blocks)} :
        \E m \in f.members : m[1] = RunLanguage /\ m[2] = t /\ m[3] # <<>>}

\* C26: a run whose walk enqueued something and whose request was answered with a translation
\* for every submitted string leaves more strings of the document cached in the file than it
\* found, no run leaves fewer, and when runs keep being made and again and again a run ends
\* without a request that was answered otherwise, a run is reached whose walk enqueues nothing.
C26_ProgressUnderTruncation ==
    /\ [][(pc = "fetch" /\ Len(textQueue) > 0 /\ pc' = "exit" /\ Delivered(last'))
              => Cardinality(CachedInFile(file')) > Cardinality(CachedInFile(file))]_vars
    /\ [][CachedInFile(file) \subseteq CachedInFile(file')]_vars
    /\ ([]<>(pc = "fetch") /\ []<>(pc = "exit" /\ (last.requested => Delivered(last))))
           => <>(pc = "fetch" /\ textQueue = <<>>)

C26_Witness ==
    /\ pc = "fetch" /\ textQueue = <<>> /\ persisted.written
    /\ Len(source.blocks[1].lines) > BatchLimit
    /\ Cardinality(CachedInFile(file)) = 3
    /\ walkOut.blocks[1].lines = [i \in 1..Len(source.blocks[1].lines) |-> TextX]

\* the file holds the languages and entries of all, and nothing else
IsMemoryOf(f, all) ==
    /\ f.exists /\ ~f.empty
    /\ f.langs = DOMAIN all
    /\ \A l \in DOMAIN all : \A t \in DOMAIN all[l] : <<l, t, all[l][t]>> \in f.members
    /\ \A m \in f.members : m[1] \in DOMAIN all /\ m[2] \in DOMAIN all[m[1]] /\ m[3] = all[m[1]][m[2]]

\* the process ended after a request whose answer it persisted
EndedPersisted(p, rec) == p = "exit" /\ rec.requested /\ rec.outcome = "ok"

\* C27: when two processes share the cache file, the file they leave is the in-memory
\* structure of one of them, never a merge of the two; an entry the other one persisted is in
\* the file only if the last writer held it too.
C27_FileIsOneWritersMemory ==
    (pc = "exit" /\ other.pc = "exit" /\ persisted.written) =>
        \/ IsMemoryOf(file, allTranslations)
        \/ IsMemoryOf(file, other.allTranslations)

\* both processes loaded the file, fetched and persisted, and the file lacks a translation
\* that the first writer persisted
C27_Witness ==
    /\ EndedPersisted(pc, last) /\ EndedPersisted(other.pc, other.last)
    /\ fileLoaded /\ other.fileLoaded
    /\ IsMemoryOf(file, allTranslations)
    /\ \E l \in DOMAIN other.allTranslations : \E t \in DOMAIN other.allTranslations[l] :
           /\ other.allTranslations[l][t] = TextX
           /\ other.last.resp.hasTranslations /\ t \in Range(other.last.submitted)
           /\ \A m \in file.members : ~(m[1] = l /\ m[2] = t)

\* the entries of language K in memory and in the file (none when K has no sub-mapping)
MemEntries(all, K) == IF K \in DOMAIN all THEN {<<t, all[K][t]>> : t \in DOMAIN all[K]} ELSE {}
FileEntries(f, K) == {<<m[2], m[3]>> : m \in {x \in f.members : x[1] = K}}

\* C28: a loadTranslations of the build that sends a request, however it ends, leaves the
\* entries of every language other than the active one as they were, in memory and in the
\* file; and no step of the build removes or alters an entry the file holds for a language
\* other than the active one, in the file or, for the languages the build has been through,
\* in memory.
C28_OtherLanguagesUntouched ==
    /\ [][(BuildLoadStep /\ last'.requested) =>
             \A K \in DOMAIN languageMap \ {targetLanguage} :
                 /\ MemEntries(allTranslations', K) = MemEntries(allTranslations, K)
                 /\ FileEntries(file', K) = FileEntries(file, K)]_vars
    /\ [][\A K \in DOMAIN languageMap \ {targetLanguage'} :
             FileEntries(file, K) \subseteq FileEntries(file', K)]_vars
    /\ [](\A i \in 1..Len(components) :
             i < compIdx =>
                 FileEntries(file, components[i]) \subseteq MemEntries(allTranslations, components[i]))

\* the request of the third language was answered and persisted while the file held a
\* translation of the first language, which is still there
C28_Witness ==
    /\ pc = "done" /\ Len(components) = 3 /\ targetLanguage = components[3]
    /\ last.requested /\ last.outcome = "ok" /\ last.resp.hasTranslations
    /\ TextX \in {last.resp.texts[i] : i \in 1..Len(last.resp.texts)}
    /\ \E t \in SrcTexts :
           /\ <<t, TextX>> \in FileEntries(file, components[1])
           /\ <<t, TextX>> \in MemEntries(allTranslations, components[1])
           /\ <<t, TextX>> \notin FileEntries(file, components[3])

\* C29 as stated: a setLanguage that fails with the unsupported-language error changes neither
\* the active language nor the active sub-mapping, allTranslations or the queue, and in every
\* state the active sub-mapping is the sub-mapping of the active language.
C29_FailedSetLanguageLeavesStore ==
    /\ [][(calls' # calls /\ last'.op = "setLanguage" /\ last'.outcome = "unsupported") =>
             UNCHANGED <<targetLanguage, viewLang, allTranslations, textQueue>>]_vars
    /\ [](viewLang = targetLanguage)

\* the strings that walks under language L put into the queue and that are still in it
EnqueuedUnder(L) == {textQueue[i] : i \in {k \in 1..Len(textQueue) : queueLang[k] = L}}

\* C30 as stated: when the walks of the component L of a build enqueued at most the batch limit
\* of strings, the request of L submits every one of them, whatever the earlier components
\* left in the queue.
C30_NoStarvation ==
    [][(BuildLoadStep /\ last'.requested
            /\ Cardinality({k \in 1..Len(textQueue) : queueLang[k] = targetLanguage}) <= BatchLimit)
          => EnqueuedUnder(targetLanguage) \subseteq Range(last'.submitted)]_vars

\* C31 as stated: in a build, whatever the order of its components, no request is sent while
\* the active language is english, and the sub-mapping of english never gains an entry.
C31_NoRequestForSource ==
    /\ [](targetLanguage = "english" => ~last.requested)
    /\ [][MemEntries(allTranslations', "english") \subseteq MemEntries(allTranslations, "english")]_vars

\* C32 as stated: after a loadTranslations that sent a request and returned without an error,
\* every submitted string has an entry in the sub-mapping of the active language, in memory
\* and in the file.
C32_PersistMeansAllCached ==
    (last.op = "loadTranslations" /\ last.requested /\ last.outcome = "ok") =>
        \A t \in Range(last.submitted) :
            /\ t \in DOMAIN allTranslations[targetLanguage]
            /\ \E m \in file.members : m[1] = targetLanguage /\ m[2] = t

\* every block tagged with L that the walk returned is the block it was handed, with
\* everything beneath it
RECURSIVE OverridesUntouched(_, _, _)
OverridesUntouched(in, out, L) ==
    \A c \in Range(out.blocks) :
        IF ~Falsy(c.lang) /\ c.lang = L THEN c = Child(in, c.id)
        ELSE (Falsy(c.lang) /\ Scanned(in, L)) => OverridesUntouched(Child(in, c.id), c, L)

\* a block without payload and without children in the place of block b
Blank(b) == Node(b.id, "open", <<>>, FALSE, <<>>, FALSE, b.lang, Undefined, <<>>)

\* the tree with every block tagged with L, and every untagged block that a sibling tagged
\* with L suppresses, replaced by a blank block
RECURSIVE Stripped(_, _)
Stripped(doc, L) ==
    [doc EXCEPT !.blocks =
        [i \in 1..Len(doc.blocks) |->
            IF ~Falsy(doc.blocks[i].lang) /\ doc.blocks[i].lang = L THEN Blank(doc.blocks[i])
            ELSE IF Falsy(doc.blocks[i].lang) /\ Matches(doc.blocks, i, L) # {}
                 THEN Blank(doc.blocks[i])
                 ELSE Stripped(doc.blocks[i], L)]]

\* C33: a block tagged with the active language comes out of a walk as it went in, with
\* every block beneath it, whether or not its text is a key of the cache; and the queue a
\* walk leaves is the queue it would leave if those blocks and the untagged blocks they
\* suppress had no text and no children at all.
C33_OverridesNeverTranslated ==
    /\ pc \in {"walked", "rewalked"} => OverridesUntouched(walkIn, walkOut, targetLanguage)
    /\ pc = "walked" =>
           textQueue = process(Stripped(walkIn, targetLanguage), <<>>, targetLanguage,
                               translations).queue

\* an untagged paragraph and its german override, both with a text the cache has a
\* translation for: the override is returned as written and nothing is enqueued
C33_Witness ==
    /\ pc = "walked" /\ targetLanguage = "german" /\ viewLang = "german"
    /\ Len(walkIn.blocks) = 2
    /\ Falsy(walkIn.blocks[1].lang) /\ walkIn.blocks[2].lang = "german"
    /\ walkIn.blocks[2].lines = <<TextA>>
    /\ Truthy(translations, TextA)
    /\ walkOut.blocks = <<walkIn.blocks[2]>>
    /\ textQueue = <<>>

====
